---------------------------- MODULE Spec2Model ----------------------------
(***************************************************************************)
(* Model of the ini_core streaming INI parser (src/src/lib.rs) and of its  *)
(* line-boundary scanners (src/src/parse/*.rs).                            *)
(*                                                                         *)
(* Bytes are the integers 0..255, byte strings are sequences of bytes.     *)
(* Rust slices are 0-based and half open; Slice(s, lo, hi) is s[lo..hi]    *)
(* and At(s, i) is s[i].                                                   *)
(***************************************************************************)
EXTENDS Integers, Sequences, FiniteSets, TLC

VARIABLES
    input,          \* the document handed to Parser::new (never changes)
    line,           \* Parser.line
    comment_char,   \* Parser.comment_char
    auto_trim,      \* Parser.auto_trim
    section_ended,  \* Parser.section_ended
    state,          \* Parser.state, the remaining input
    started,        \* TRUE once next() has been called
    last,           \* return value of the latest next(): <<>> is None, <<e>> is Some(e)
    out,            \* the elements yielded so far, in order
    used,           \* used[k]: number of bytes the pull that yielded out[k] consumed
    scan            \* the scanner harness: a buffer, an extra byte, the backend results

vars == <<input, line, comment_char, auto_trim, section_ended, state,
          started, last, out, used, scan>>

parserVars == <<input, line, comment_char, auto_trim, section_ended, state,
                started, last, out, used>>

---------------------------------------------------------------------------
(* Bounds of the model.                                                    *)

MaxLen == 4

\* Longest buffer of the scanner harness: two 32-byte chunks and a tail.
MaxBuf == 66

\* Longest buffer of the exhaustive scanner inputs.
MaxShort == 5

---------------------------------------------------------------------------
(* Bytes.                                                                  *)

LF == 10
CR == 13
SP == 32
HASH == 35
SEMI == 59
EQ == 61
LBRACK == 91
RBRACK == 93

Slice(s, lo, hi) == SubSeq(s, lo + 1, hi)
SliceFrom(s, lo) == SubSeq(s, lo + 1, Len(s))
At(s, i) == s[i + 1]

---------------------------------------------------------------------------
(* parse::generic, the scalar scanners.                                    *)

\* Mutant of find_nl_loop: without a match the result is one past the length.
RECURSIVE find_nl_loop_PastEnd(_, _)
find_nl_loop_PastEnd(s, i) ==
    IF i < Len(s)
    THEN IF At(s, i) = LF \/ At(s, i) = CR THEN i ELSE find_nl_loop_PastEnd(s, i + 1)
    ELSE i + 1

\* Mutant of find_nl_loop: only \n ends the scan.
RECURSIVE find_nl_loop_LfOnly(_, _)
find_nl_loop_LfOnly(s, i) ==
    IF i < Len(s)
    THEN IF At(s, i) = LF THEN i ELSE find_nl_loop_LfOnly(s, i + 1)
    ELSE i

RECURSIVE find_nl_loop(_, _)
find_nl_loop(s, i) ==
    IF i < Len(s)
    THEN IF At(s, i) = LF \/ At(s, i) = CR THEN i ELSE find_nl_loop(s, i + 1)
    ELSE i

find_nl(s) == find_nl_loop(s, 0)

\* Mutant of find_nl_chr_loop: \r is not looked for.
RECURSIVE find_nl_chr_loop_NoCr(_, _, _)
find_nl_chr_loop_NoCr(s, chr, i) ==
    IF i < Len(s)
    THEN IF At(s, i) = LF \/ At(s, i) = chr
         THEN i
         ELSE find_nl_chr_loop_NoCr(s, chr, i + 1)
    ELSE i

RECURSIVE find_nl_chr_loop(_, _, _)
find_nl_chr_loop(s, chr, i) ==
    IF i < Len(s)
    THEN IF At(s, i) = LF \/ At(s, i) = CR \/ At(s, i) = chr
         THEN i
         ELSE find_nl_chr_loop(s, chr, i + 1)
    ELSE i

find_nl_chr(s, chr) == find_nl_chr_loop(s, chr, 0)

---------------------------------------------------------------------------
(* Machine words and vectors.  A word of W bytes is the sequence of its    *)
(* bytes, least significant first: on the little-endian targets of the     *)
(* chunked scanners byte k of a word read at s[offset] is s[offset + k].   *)

RECURSIVE BitAnd8(_, _)
BitAnd8(a, b) ==
    IF a = 0 \/ b = 0 THEN 0
    ELSE (a % 2) * (b % 2) + 2 * BitAnd8(a \div 2, b \div 2)

RECURSIVE BitXor8(_, _)
BitXor8(a, b) ==
    IF a = 0 THEN b
    ELSE IF b = 0 THEN a
    ELSE ((a + b) % 2) + 2 * BitXor8(a \div 2, b \div 2)

Bytes == 0..255

AndTable == [a \in Bytes |-> [b \in Bytes |-> BitAnd8(a, b)]]
XorTable == [a \in Bytes |-> [b \in Bytes |-> BitXor8(a, b)]]

WAnd(a, b) == [k \in DOMAIN a |-> AndTable[a[k]][b[k]]]
WXor(a, b) == [k \in DOMAIN a |-> XorTable[a[k]][b[k]]]
WOr(a, b) == [k \in DOMAIN a |-> a[k] + b[k] - AndTable[a[k]][b[k]]]
WNot(a) == [k \in DOMAIN a |-> 255 - a[k]]

\* a + b on W-byte words, wrapping: the carry runs from byte to byte and the
\* carry out of the top byte is dropped.
RECURSIVE WAddFrom(_, _, _, _)
WAddFrom(a, b, k, carry) ==
    IF k > Len(a) THEN <<>>
    ELSE <<(a[k] + b[k] + carry) % 256>>
         \o WAddFrom(a, b, k + 1, (a[k] + b[k] + carry) \div 256)

WAdd(a, b) == WAddFrom(a, b, 1, 0)

\* b as uN * 0x0101..01, and the literals 0x7f7f.., 0x0101.., 0x8080..
Splat(b, W) == [k \in 1..W |-> b]

\* (s.as_ptr().add(offset) as *const uN).read_unaligned()
ReadWord(s, offset, W) == [k \in 1..W |-> At(s, offset + k - 1)]

WIsZero(w) == \A k \in DOMAIN w : w[k] = 0

RECURSIVE Tz8(_)
Tz8(b) == IF b % 2 = 1 THEN 0 ELSE 1 + Tz8(b \div 2)

\* mask.trailing_zeros() of a non-zero word.
RECURSIVE trailing_zeros(_, _)
trailing_zeros(w, k) ==
    IF k > Len(w) THEN 0
    ELSE IF w[k] = 0 THEN 8 + trailing_zeros(w, k + 1)
    ELSE Tz8(w[k])

---------------------------------------------------------------------------
(* parse::swar32.                                                          *)

\* Mutant of cmpeq32: the low seven bits are not masked before the addition,
\* so an equal byte carries into the byte above it.
cmpeq32_NoLowMask(needle, haystack) ==
    LET neq == WNot(WXor(needle, haystack))
        t0 == WAdd(neq, Splat(1, 4))
        t1 == WAnd(neq, Splat(128, 4))
    IN  WAnd(t0, t1)

cmpeq32(needle, haystack) ==
    LET neq == WNot(WXor(needle, haystack))
        t0 == WAdd(WAnd(neq, Splat(127, 4)), Splat(1, 4))
        t1 == WAnd(neq, Splat(128, 4))
    IN  WAnd(t0, t1)

RECURSIVE swar32_find_nl_loop(_, _)
swar32_find_nl_loop(s, offset) ==
    IF offset + 4 <= Len(s)
    THEN LET word == ReadWord(s, offset, 4)
             mask == WOr(cmpeq32(Splat(LF, 4), word), cmpeq32(Splat(CR, 4), word))
         IN  IF ~WIsZero(mask)
             THEN offset + (trailing_zeros(mask, 1) \div 8)
             ELSE swar32_find_nl_loop(s, offset + 4)
    ELSE offset + find_nl(SliceFrom(s, offset))

swar32_find_nl(s) == swar32_find_nl_loop(s, 0)

RECURSIVE swar32_find_nl_chr_loop(_, _, _)
swar32_find_nl_chr_loop(s, chr, offset) ==
    IF offset + 4 <= Len(s)
    THEN LET word == ReadWord(s, offset, 4)
             mask == WOr(WOr(cmpeq32(Splat(LF, 4), word), cmpeq32(Splat(CR, 4), word)),
                         cmpeq32(Splat(chr, 4), word))
         IN  IF ~WIsZero(mask)
             THEN offset + (trailing_zeros(mask, 1) \div 8)
             ELSE swar32_find_nl_chr_loop(s, chr, offset + 4)
    ELSE offset + find_nl_chr(SliceFrom(s, offset), chr)

swar32_find_nl_chr(s, chr) == swar32_find_nl_chr_loop(s, chr, 0)

---------------------------------------------------------------------------
(* parse::swar64.                                                          *)

\* Mutant of cmpeq64: the high bit of the byte is not compared (t1 dropped),
\* so a byte that differs from the needle in bit 7 only is a match.
cmpeq64_NoHighBit(needle, haystack) ==
    LET neq == WNot(WXor(needle, haystack))
        t0 == WAdd(WAnd(neq, Splat(127, 8)), Splat(1, 8))
    IN  WAnd(t0, Splat(128, 8))

cmpeq64(needle, haystack) ==
    LET neq == WNot(WXor(needle, haystack))
        t0 == WAdd(WAnd(neq, Splat(127, 8)), Splat(1, 8))
        t1 == WAnd(neq, Splat(128, 8))
    IN  WAnd(t0, t1)

RECURSIVE swar64_find_nl_loop(_, _)
swar64_find_nl_loop(s, offset) ==
    IF offset + 8 <= Len(s)
    THEN LET word == ReadWord(s, offset, 8)
             mask == WOr(cmpeq64(Splat(LF, 8), word), cmpeq64(Splat(CR, 8), word))
         IN  IF ~WIsZero(mask)
             THEN offset + (trailing_zeros(mask, 1) \div 8)
             ELSE swar64_find_nl_loop(s, offset + 8)
    ELSE offset + find_nl(SliceFrom(s, offset))

swar64_find_nl(s) == swar64_find_nl_loop(s, 0)

RECURSIVE swar64_find_nl_chr_loop(_, _, _)
swar64_find_nl_chr_loop(s, chr, offset) ==
    IF offset + 8 <= Len(s)
    THEN LET word == ReadWord(s, offset, 8)
             mask == WOr(WOr(cmpeq64(Splat(LF, 8), word), cmpeq64(Splat(CR, 8), word)),
                         cmpeq64(Splat(chr, 8), word))
         IN  IF ~WIsZero(mask)
             THEN offset + (trailing_zeros(mask, 1) \div 8)
             ELSE swar64_find_nl_chr_loop(s, chr, offset + 8)
    ELSE offset + find_nl_chr(SliceFrom(s, offset), chr)

swar64_find_nl_chr(s, chr) == swar64_find_nl_chr_loop(s, chr, 0)

---------------------------------------------------------------------------
(* parse::sse2 and parse::avx2.  A vector is the sequence of its byte      *)
(* lanes; a movemask is the sequence of its bits, lane 0 first.            *)

\* _mm_cmpeq_epi8 / _mm256_cmpeq_epi8: 0xFF in every lane that is equal.
mm_cmpeq_epi8(a, b) == [k \in DOMAIN a |-> IF a[k] = b[k] THEN 255 ELSE 0]

\* _mm_or_si128 / _mm256_or_si256
mm_or(a, b) == WOr(a, b)

\* _mm_movemask_epi8 / _mm256_movemask_epi8: the top bit of every lane.
mm_movemask_epi8(v) == [k \in DOMAIN v |-> v[k] \div 128]

MaskIsZero(m) == \A k \in DOMAIN m : m[k] = 0

\* mask.trailing_zeros() of a non-zero movemask.
RECURSIVE mask_trailing_zeros(_, _)
mask_trailing_zeros(m, k) ==
    IF k > Len(m) THEN 0
    ELSE IF m[k] = 0 THEN 1 + mask_trailing_zeros(m, k + 1)
    ELSE 0

RECURSIVE sse2_find_nl_loop(_, _)
sse2_find_nl_loop(s, offset) ==
    IF offset + 16 <= Len(s)
    THEN LET block == ReadWord(s, offset, 16)
             n_eq == mm_cmpeq_epi8(Splat(LF, 16), block)
             r_eq == mm_cmpeq_epi8(Splat(CR, 16), block)
             mask == mm_movemask_epi8(mm_or(n_eq, r_eq))
         IN  IF ~MaskIsZero(mask)
             THEN offset + mask_trailing_zeros(mask, 1)
             ELSE sse2_find_nl_loop(s, offset + 16)
    ELSE offset + find_nl(SliceFrom(s, offset))

sse2_find_nl(s) == sse2_find_nl_loop(s, 0)

RECURSIVE sse2_find_nl_chr_loop(_, _, _)
sse2_find_nl_chr_loop(s, chr, offset) ==
    IF offset + 16 <= Len(s)
    THEN LET block == ReadWord(s, offset, 16)
             n_eq == mm_cmpeq_epi8(Splat(LF, 16), block)
             r_eq == mm_cmpeq_epi8(Splat(CR, 16), block)
             c_eq == mm_cmpeq_epi8(Splat(chr, 16), block)
             mask == mm_movemask_epi8(mm_or(mm_or(n_eq, r_eq), c_eq))
         IN  IF ~MaskIsZero(mask)
             THEN offset + mask_trailing_zeros(mask, 1)
             ELSE sse2_find_nl_chr_loop(s, chr, offset + 16)
    ELSE offset + find_nl_chr(SliceFrom(s, offset), chr)

sse2_find_nl_chr(s, chr) == sse2_find_nl_chr_loop(s, chr, 0)

RECURSIVE avx2_find_nl_loop(_, _)
avx2_find_nl_loop(s, offset) ==
    IF offset + 32 <= Len(s)
    THEN LET block == ReadWord(s, offset, 32)
             n_eq == mm_cmpeq_epi8(Splat(LF, 32), block)
             r_eq == mm_cmpeq_epi8(Splat(CR, 32), block)
             mask == mm_movemask_epi8(mm_or(n_eq, r_eq))
         IN  IF ~MaskIsZero(mask)
             THEN offset + mask_trailing_zeros(mask, 1)
             ELSE avx2_find_nl_loop(s, offset + 32)
    ELSE offset + find_nl(SliceFrom(s, offset))

avx2_find_nl(s) == avx2_find_nl_loop(s, 0)

RECURSIVE avx2_find_nl_chr_loop(_, _, _)
avx2_find_nl_chr_loop(s, chr, offset) ==
    IF offset + 32 <= Len(s)
    THEN LET block == ReadWord(s, offset, 32)
             n_eq == mm_cmpeq_epi8(Splat(LF, 32), block)
             r_eq == mm_cmpeq_epi8(Splat(CR, 32), block)
             c_eq == mm_cmpeq_epi8(Splat(chr, 32), block)
             mask == mm_movemask_epi8(mm_or(mm_or(n_eq, r_eq), c_eq))
         IN  IF ~MaskIsZero(mask)
             THEN offset + mask_trailing_zeros(mask, 1)
             ELSE avx2_find_nl_chr_loop(s, chr, offset + 32)
    ELSE offset + find_nl_chr(SliceFrom(s, offset), chr)

avx2_find_nl_chr(s, chr) == avx2_find_nl_chr_loop(s, chr, 0)

---------------------------------------------------------------------------
(* Item, the element type.  text and value are byte strings; value is an   *)
(* Option: <<>> is None and <<v>> is Some(v).                              *)

Error(t) == [tag |-> "Error", text |-> t, value |-> <<>>]
Section(t) == [tag |-> "Section", text |-> t, value |-> <<>>]
SectionEnd == [tag |-> "SectionEnd", text |-> <<>>, value |-> <<>>]
Property(k, v) == [tag |-> "Property", text |-> k, value |-> v]
Comment(t) == [tag |-> "Comment", text |-> t, value |-> <<>>]
Blank == [tag |-> "Blank", text |-> <<>>, value |-> <<>>]

None == <<>>
Some(x) == <<x>>

---------------------------------------------------------------------------
(* trim: s.trim_matches(|chr| chr.is_ascii_whitespace()).                  *)

is_ascii_whitespace(b) == b \in {32, 9, 10, 12, 13}

RECURSIVE trim_start(_)
trim_start(s) ==
    IF s # <<>> /\ is_ascii_whitespace(s[1]) THEN trim_start(Tail(s)) ELSE s

RECURSIVE trim_end(_)
trim_end(s) ==
    IF s # <<>> /\ is_ascii_whitespace(s[Len(s)])
    THEN trim_end(SubSeq(s, 1, Len(s) - 1))
    ELSE s

\* Mutant of trim: only the start of the string is trimmed.
trim_StartOnly(s) == trim_start(s)

trim(s) == trim_end(trim_start(s))

---------------------------------------------------------------------------
(* The parser.  self is the record of the Parser fields.                   *)

\* Mutant of ParserNew: the parser starts as if a section had just ended.
ParserNew_Ended(s) ==
    [line |-> 0, comment_char |-> SEMI, auto_trim |-> FALSE,
     section_ended |-> TRUE, state |-> s]

ParserNew(s) ==
    [line |-> 0, comment_char |-> SEMI, auto_trim |-> FALSE,
     section_ended |-> FALSE, state |-> s]

\* Mutant of skip_ln: the line is counted also when no terminator is left.
skip_ln_CountsAlways(self, s) ==
    LET s1 == IF s # <<>> /\ At(s, 0) = CR THEN SliceFrom(s, 1) ELSE s
        s2 == IF s1 # <<>> /\ At(s1, 0) = LF THEN SliceFrom(s1, 1) ELSE s1
    IN  [self EXCEPT !.line = @ + 1, !.state = s2]

\* Mutant of skip_ln: the test for \n looks at the slice before the \r was
\* skipped, so \r\n is taken as two terminators.
skip_ln_StaleSlice(self, s) ==
    IF s # <<>>
    THEN LET s1 == IF At(s, 0) = CR THEN SliceFrom(s, 1) ELSE s
             s2 == IF At(s, 0) = LF THEN SliceFrom(s1, 1) ELSE s1
         IN  [self EXCEPT !.line = @ + 1, !.state = s2]
    ELSE [self EXCEPT !.state = s]

\* skip_ln(&mut self, s): skips one optional \r, then one optional \n.
\* line is a u32; it counts terminators of the input, far below 2^32 here.
skip_ln(self, s) ==
    IF s # <<>>
    THEN LET s1 == IF At(s, 0) = CR THEN SliceFrom(s, 1) ELSE s
             s2 == IF s1 # <<>> /\ At(s1, 0) = LF THEN SliceFrom(s1, 1) ELSE s1
         IN  [self EXCEPT !.line = @ + 1, !.state = s2]
    ELSE [self EXCEPT !.state = s]

MaybeTrim(self, t) == IF self.auto_trim THEN trim(t) ELSE t

\* Mutant of TerminalCase: the end of input is never flushed.
TerminalCase_NoFlush(self) == [self |-> self, ret |-> None]

\* Terminal case: the remaining input is empty.
TerminalCase(self) ==
    IF self.section_ended
    THEN [self |-> self, ret |-> None]
    ELSE [self |-> [self EXCEPT !.section_ended = TRUE], ret |-> Some(SectionEnd)]

\* Mutant of BlankBranch: a blank line also swallows the terminator after it.
BlankBranch_SkipsTwo(self) ==
    LET once == skip_ln(self, self.state)
    IN  [self |-> skip_ln(once, once.state), ret |-> Some(Blank)]

\* Blank arm: the line is only its terminator.
BlankBranch(self) ==
    [self |-> skip_ln(self, self.state), ret |-> Some(Blank)]

\* Mutant of CommentBranch: the marker is not stripped from the text.
CommentBranch_KeepMarker(self) ==
    LET s == SliceFrom(self.state, 1)
        i == find_nl(s)
        comment == MaybeTrim(self, Slice(self.state, 0, i + 1))
    IN  [self |-> skip_ln(self, SliceFrom(s, i)), ret |-> Some(Comment(comment))]

CommentBranch(self) ==
    LET s == SliceFrom(self.state, 1)
        i == find_nl(s)
        comment == MaybeTrim(self, Slice(s, 0, i))
    IN  [self |-> skip_ln(self, SliceFrom(s, i)), ret |-> Some(Comment(comment))]

\* Mutant of SectionHeader: section_ended is cleared only by a malformed header.
SectionHeader_KeepFlagOnSection(self) ==
    LET s == self.state
        cleared == [self EXCEPT !.section_ended = FALSE]
        i == find_nl(s)
    IN  IF At(s, i - 1) # RBRACK
        THEN [self |-> skip_ln(cleared, SliceFrom(s, i)),
              ret |-> Some(Error(Slice(s, 0, i)))]
        ELSE [self |-> skip_ln(self, SliceFrom(s, i)),
              ret |-> Some(Section(MaybeTrim(self, Slice(s, 1, i - 1))))]

\* Mutant of SectionHeader: section_ended is cleared only by a well-formed header.
SectionHeader_KeepFlagOnError(self) ==
    LET s == self.state
        cleared == [self EXCEPT !.section_ended = FALSE]
        i == find_nl(s)
    IN  IF At(s, i - 1) # RBRACK
        THEN [self |-> skip_ln(self, SliceFrom(s, i)),
              ret |-> Some(Error(Slice(s, 0, i)))]
        ELSE [self |-> skip_ln(cleared, SliceFrom(s, i)),
              ret |-> Some(Section(MaybeTrim(self, Slice(s, 1, i - 1))))]

\* Mutant of SectionHeader: a malformed header does not advance the cursor.
SectionHeader_Stall(self) ==
    LET s == self.state
        cleared == [self EXCEPT !.section_ended = FALSE]
        i == find_nl(s)
    IN  IF At(s, i - 1) # RBRACK
        THEN [self |-> cleared, ret |-> Some(Error(Slice(s, 0, i)))]
        ELSE [self |-> skip_ln(cleared, SliceFrom(s, i)),
              ret |-> Some(Section(MaybeTrim(self, Slice(s, 1, i - 1))))]

\* Mutant of SectionHeader: the Error text is trimmed like the other texts.
SectionHeader_TrimError(self) ==
    LET s == self.state
        cleared == [self EXCEPT !.section_ended = FALSE]
        i == find_nl(s)
    IN  IF At(s, i - 1) # RBRACK
        THEN [self |-> skip_ln(cleared, SliceFrom(s, i)),
              ret |-> Some(Error(MaybeTrim(self, Slice(s, 0, i))))]
        ELSE [self |-> skip_ln(cleared, SliceFrom(s, i)),
              ret |-> Some(Section(MaybeTrim(self, Slice(s, 1, i - 1))))]

\* The section branch with section_ended set: the header line itself.
SectionHeader(self) ==
    LET s == self.state
        cleared == [self EXCEPT !.section_ended = FALSE]
        i == find_nl(s)
    IN  IF At(s, i - 1) # RBRACK
        THEN [self |-> skip_ln(cleared, SliceFrom(s, i)),
              ret |-> Some(Error(Slice(s, 0, i)))]
        ELSE [self |-> skip_ln(cleared, SliceFrom(s, i)),
              ret |-> Some(Section(MaybeTrim(self, Slice(s, 1, i - 1))))]

\* Mutant of SectionBranch: emitting SectionEnd also counts a line.
SectionBranch_CountsLine(self) ==
    IF self.section_ended
    THEN SectionHeader(self)
    ELSE [self |-> [self EXCEPT !.section_ended = TRUE, !.line = @ + 1],
          ret |-> Some(SectionEnd)]

\* Mutant of SectionBranch: SectionEnd is emitted without setting the flag.
SectionBranch_FlagNotSet(self) ==
    IF self.section_ended
    THEN SectionHeader(self)
    ELSE [self |-> self, ret |-> Some(SectionEnd)]

\* Mutant of SectionBranch: the header is parsed at once, no SectionEnd first.
SectionBranch_NoEnd(self) == SectionHeader(self)

SectionBranch(self) ==
    IF self.section_ended
    THEN SectionHeader(self)
    ELSE [self |-> [self EXCEPT !.section_ended = TRUE], ret |-> Some(SectionEnd)]

\* Mutant of PropertyBranch: an empty key without `=` stays a Property.
PropertyBranch_NoCollapse(self) ==
    LET s == self.state
        i == find_nl_chr(s, EQ)
        key == MaybeTrim(self, Slice(s, 0, i))
    IN  IF ~(i < Len(s) /\ At(s, i) = EQ)
        THEN [self |-> skip_ln(self, SliceFrom(s, i)),
              ret |-> Some(Property(key, None))]
        ELSE LET s2 == SliceFrom(s, i + 1)
                 j == find_nl(s2)
                 value == MaybeTrim(self, Slice(s2, 0, j))
             IN  [self |-> skip_ln(self, SliceFrom(s2, j)),
                  ret |-> Some(Property(key, Some(value)))]

\* Mutant of PropertyBranch: the value also stops at the next `=`.
PropertyBranch_ValueStopsAtEq(self) ==
    LET s == self.state
        i == find_nl_chr(s, EQ)
        key == MaybeTrim(self, Slice(s, 0, i))
    IN  IF ~(i < Len(s) /\ At(s, i) = EQ)
        THEN [self |-> skip_ln(self, SliceFrom(s, i)),
              ret |-> IF key = <<>> THEN Some(Blank)
                      ELSE Some(Property(key, None))]
        ELSE LET s2 == SliceFrom(s, i + 1)
                 j == find_nl_chr(s2, EQ)
                 value == MaybeTrim(self, Slice(s2, 0, j))
             IN  [self |-> skip_ln(self, SliceFrom(s2, find_nl(s2))),
                  ret |-> Some(Property(key, Some(value)))]

PropertyBranch(self) ==
    LET s == self.state
        i == find_nl_chr(s, EQ)
        key == MaybeTrim(self, Slice(s, 0, i))
    IN  IF ~(i < Len(s) /\ At(s, i) = EQ)
        THEN [self |-> skip_ln(self, SliceFrom(s, i)),
              ret |-> IF key = <<>> THEN Some(Blank)
                      ELSE Some(Property(key, None))]
        ELSE LET s2 == SliceFrom(s, i + 1)
                 j == find_nl(s2)
                 value == MaybeTrim(self, Slice(s2, 0, j))
             IN  [self |-> skip_ln(self, SliceFrom(s2, j)),
                  ret |-> Some(Property(key, Some(value)))]

\* Mutant of ParserNext: the `[` arm is tried before the comment arm.
ParserNext_SectionFirst(self) ==
    LET s == self.state
    IN  IF s = <<>> THEN TerminalCase(self)
        ELSE IF At(s, 0) = CR \/ At(s, 0) = LF THEN BlankBranch(self)
        ELSE IF At(s, 0) = LBRACK THEN SectionBranch(self)
        ELSE IF At(s, 0) = self.comment_char THEN CommentBranch(self)
        ELSE PropertyBranch(self)

\* Iterator::next: the match on the first byte of the remaining input.
ParserNext(self) ==
    LET s == self.state
    IN  IF s = <<>> THEN TerminalCase(self)
        ELSE IF At(s, 0) = CR \/ At(s, 0) = LF THEN BlankBranch(self)
        ELSE IF At(s, 0) = self.comment_char THEN CommentBranch(self)
        ELSE IF At(s, 0) = LBRACK THEN SectionBranch(self)
        ELSE PropertyBranch(self)

\* str::from_utf8(v).is_ok(): v is a sequence of well-formed UTF-8 characters.
Utf8Width(b) ==
    IF b < 128 THEN 1
    ELSE IF b >= 194 /\ b <= 223 THEN 2
    ELSE IF b >= 224 /\ b <= 239 THEN 3
    ELSE IF b >= 240 /\ b <= 244 THEN 4
    ELSE 0

IsContinuation(b) == b >= 128 /\ b <= 191

RECURSIVE from_utf8_ok(_)
from_utf8_ok(v) ==
    IF v = <<>> THEN TRUE
    ELSE LET n == Utf8Width(v[1])
         IN  /\ n > 0
             /\ n <= Len(v)
             /\ \A k \in 2..n : IsContinuation(v[k])
             /\ v[1] = 224 => v[2] >= 160
             /\ v[1] = 237 => v[2] <= 159
             /\ v[1] = 240 => v[2] >= 144
             /\ v[1] = 244 => v[2] <= 143
             /\ from_utf8_ok(SubSeq(v, n + 1, Len(v)))

\* The bounds checks of slice indexing: s[i], s[lo..hi] and s[lo..] panic
\* unless these hold.
IndexOk(s, i) == 0 <= i /\ i < Len(s)
RangeOk(s, lo, hi) == 0 <= lo /\ lo <= hi /\ hi <= Len(s)
RangeFromOk(s, lo) == 0 <= lo /\ lo <= Len(s)

\* skip_ln: s[0] and s[1..], each behind a test of !s.is_empty().
skip_ln_InBounds(s) ==
    s # <<>> =>
        /\ IndexOk(s, 0)
        /\ At(s, 0) = CR => RangeFromOk(s, 1)
        /\ LET s1 == IF At(s, 0) = CR THEN SliceFrom(s, 1) ELSE s
           IN  s1 # <<>> => (IndexOk(s1, 0) /\ RangeFromOk(s1, 1))

\* Comment arm: s[1..], s[..i], s[i..].
CommentInBounds(self) ==
    /\ RangeFromOk(self.state, 1)
    /\ LET s == SliceFrom(self.state, 1)
           i == find_nl(s)
       IN  /\ RangeOk(s, 0, i)
           /\ RangeFromOk(s, i)
           /\ skip_ln_InBounds(SliceFrom(s, i))

\* Section arm with section_ended set: s[i - 1], then s[..i] or s[1..i - 1],
\* and s[i..].
SectionHeaderInBounds(self) ==
    LET s == self.state
        i == find_nl(s)
    IN  /\ IndexOk(s, i - 1)
        /\ IF At(s, i - 1) # RBRACK THEN RangeOk(s, 0, i) ELSE RangeOk(s, 1, i - 1)
        /\ RangeFromOk(s, i)
        /\ skip_ln_InBounds(SliceFrom(s, i))

\* Property arm: s[..i], s.get(i), then s[i..], or s[i + 1..], s[..j], s[j..].
PropertyInBounds(self) ==
    LET s == self.state
        i == find_nl_chr(s, EQ)
    IN  /\ RangeOk(s, 0, i)
        /\ IF ~(i < Len(s) /\ At(s, i) = EQ)
           THEN RangeFromOk(s, i) /\ skip_ln_InBounds(SliceFrom(s, i))
           ELSE /\ RangeFromOk(s, i + 1)
                /\ LET s2 == SliceFrom(s, i + 1)
                       j == find_nl(s2)
                   IN  /\ RangeOk(s2, 0, j)
                       /\ RangeFromOk(s2, j)
                       /\ skip_ln_InBounds(SliceFrom(s2, j))

\* Every index and slice range that next() evaluates on self is in bounds.
NextInBounds(self) ==
    LET s == self.state
    IN  IF s = <<>> THEN TRUE
        ELSE IF At(s, 0) = CR \/ At(s, 0) = LF THEN skip_ln_InBounds(s)
        ELSE IF At(s, 0) = self.comment_char THEN CommentInBounds(self)
        ELSE IF At(s, 0) = LBRACK
             THEN (self.section_ended => SectionHeaderInBounds(self))
        ELSE PropertyInBounds(self)

\* Parser::new(s).collect(), as the tests drive it: the elements of repeated
\* pulls up to the first None, each with the number of bytes its pull
\* consumed.  fuel bounds the number of pulls.
RECURSIVE CollectFrom(_, _)
CollectFrom(self, fuel) ==
    IF fuel = 0 THEN <<>>
    ELSE LET r == ParserNext(self)
         IN  IF r.ret = None THEN <<>>
             ELSE <<[item |-> r.ret[1],
                     used |-> Len(self.state) - Len(r.self.state)]>>
                  \o CollectFrom(r.self, fuel - 1)

Collect(self) == CollectFrom(self, 2 * Len(self.state) + 2)

---------------------------------------------------------------------------
(* Documents.                                                              *)

Alphabet == {LF, CR, LBRACK, RBRACK, EQ, SEMI, SP, 97}

ShortDocs == UNION {[1..n -> Alphabet] : n \in 0..MaxLen}

\* Documents of the crate documentation and of src/src/tests.rs.
DocSection == <<91,83,69,67,84,73,79,78,93,10,59,99,10,75,61,86>>
DocNonsense == <<91,83,69,67,84,73,79,78,10,110,111,110,115,101,110,115,101>>
DocTerminates == <<91,10,91,93,32,13,10>>
DocFooErr == <<91,102,111,111,93,10,91>>
DocEmptyStrings ==
    <<91,93,10,61,13,10,32,61,32,10,59,10,32,13,61,32,13,10,32,61,10,61>>
DocEosSection == <<13,10,91,83,69,67,84,73,79,78,93,10>>
DocBlankLines == <<10,13,10,13>>
DocSpaces == <<91,32,97,32,93,10,32,97,32,61,32,98,32,10,59,32,99,32,10,32,9,32>>
\* A &str with characters of two, three and four bytes; the first one is
\* 0xDB 0x8A, the two bytes of CommentArgs that have the high bit set.
DocUtf8 == <<219,138,61,226,130,172,10,91,219,138,93,10,59,240,159,146,150>>

FixedDocs == {DocSection, DocNonsense, DocTerminates, DocFooErr, DocEmptyStrings,
              DocEosSection, DocBlankLines, DocSpaces, DocUtf8}

Docs == ShortDocs \cup FixedDocs

\* Arguments given to Parser::comment_char: '#', 0xDB, which masks to '[', and
\* 0x8A, which masks to '\n'.
CommentArgs == {HASH, 219, 138}

NoScan == [buf |-> <<>>, chr |-> 0, pc |-> "idle", r |-> <<>>]

---------------------------------------------------------------------------
(* The parser as a state machine.                                          *)

Self ==
    [line |-> line, comment_char |-> comment_char, auto_trim |-> auto_trim,
     section_ended |-> section_ended, state |-> state]

Init ==
    /\ input \in Docs
    /\ line = ParserNew(input).line
    /\ comment_char = ParserNew(input).comment_char
    /\ auto_trim = ParserNew(input).auto_trim
    /\ section_ended = ParserNew(input).section_ended
    /\ state = ParserNew(input).state
    /\ started = FALSE
    /\ last = None
    /\ out = <<>>
    /\ used = <<>>
    /\ scan = NoScan

\* Mutant of SetCommentChar: chr is stored without masking its high bit.
SetCommentChar_NoMask ==
    /\ ~started
    /\ \E chr \in CommentArgs : comment_char' = chr
    /\ UNCHANGED <<input, line, auto_trim, section_ended, state, started, last,
                   out, used, scan>>

\* Parser::comment_char(self, chr), a builder step: the configuration is fixed
\* before the first pull.
SetCommentChar ==
    /\ ~started
    /\ \E chr \in CommentArgs : comment_char' = chr % 128
    /\ UNCHANGED <<input, line, auto_trim, section_ended, state, started, last,
                   out, used, scan>>

\* Parser::auto_trim(self, auto_trim), a builder step.
SetAutoTrim ==
    /\ ~started
    /\ \E b \in BOOLEAN : auto_trim' = b
    /\ UNCHANGED <<input, line, comment_char, section_ended, state, started, last,
                   out, used, scan>>

\* One call of Iterator::next.  An index or a slice range out of bounds is a
\* panic: the call does not return.
Pull ==
    LET r == ParserNext(Self)
    IN  /\ NextInBounds(Self)
        /\ line' = r.self.line
        /\ comment_char' = r.self.comment_char
        /\ auto_trim' = r.self.auto_trim
        /\ section_ended' = r.self.section_ended
        /\ state' = r.self.state
        /\ started' = TRUE
        /\ last' = r.ret
        /\ out' = IF r.ret = None THEN out ELSE Append(out, r.ret[1])
        /\ used' = IF r.ret = None THEN used
                   ELSE Append(used, Len(state) - Len(r.self.state))
        /\ UNCHANGED <<input, scan>>

Next == SetCommentChar \/ SetAutoTrim \/ Pull

Spec == Init /\ [][Next]_vars

---------------------------------------------------------------------------
(* The scanner harness, after test_parse: a buffer and an extra byte are   *)
(* chosen, then the scalar scanners and every chunked backend are run on   *)
(* them, in turn.                                                          *)

\* Bytes in front of the first match: the complements of \r and \n, as in
\* test_parse; or \n, \r and `=` with bit 7 set; or `-`.
FillByte(kind, k) ==
    IF kind = "dash" THEN 45
    ELSE IF kind = "near" THEN (IF k % 2 = 0 THEN 242 ELSE 245)
    ELSE IF k % 3 = 0 THEN 138 ELSE IF k % 3 = 1 THEN 141 ELSE 189

\* The bytes put in front of each kind of match.
FillOf(hit) == IF hit = LF THEN "near" ELSE IF hit = CR THEN "high" ELSE "dash"

\* A buffer of n bytes whose first match, hit, is at index i (none if i = n);
\* the bytes behind it are `-`, and \r at the end of the buffer.
LongBuf(n, i, hit) ==
    [k \in 1..n |->
        IF k - 1 < i THEN FillByte(FillOf(hit), k - 1)
        ELSE IF k - 1 = i THEN hit
        ELSE IF k = n THEN CR
        ELSE 45]

LongBufs ==
    UNION {{LongBuf(n, i, hit) : i \in 0..n, hit \in {LF, CR, EQ}} : n \in 0..MaxBuf}

ShortAlphabet == {LF, CR, EQ, 138}

ShortBufs == UNION {[1..n -> ShortAlphabet] : n \in 0..MaxShort}

ScanInputs ==
    {[buf |-> b, chr |-> EQ, pc |-> "generic", r |-> <<>>] : b \in LongBufs}
    \cup {[buf |-> b, chr |-> c, pc |-> "generic", r |-> <<>>] :
             b \in ShortBufs, c \in {EQ, 138}}

ScanInit ==
    /\ scan \in ScanInputs
    /\ input = <<>>
    /\ line = ParserNew(input).line
    /\ comment_char = ParserNew(input).comment_char
    /\ auto_trim = ParserNew(input).auto_trim
    /\ section_ended = ParserNew(input).section_ended
    /\ state = ParserNew(input).state
    /\ started = FALSE
    /\ last = None
    /\ out = <<>>
    /\ used = <<>>

ScanResult(nl, nl_chr) == [nl |-> nl, nl_chr |-> nl_chr]

ScanGeneric ==
    /\ scan.pc = "generic"
    /\ scan' = [scan EXCEPT
           !.r = Append(@, ScanResult(find_nl(scan.buf),
                                      find_nl_chr(scan.buf, scan.chr))),
           !.pc = "swar32"]
    /\ UNCHANGED parserVars

ScanSwar32 ==
    /\ scan.pc = "swar32"
    /\ scan' = [scan EXCEPT
           !.r = Append(@, ScanResult(swar32_find_nl(scan.buf),
                                      swar32_find_nl_chr(scan.buf, scan.chr))),
           !.pc = "swar64"]
    /\ UNCHANGED parserVars

ScanSwar64 ==
    /\ scan.pc = "swar64"
    /\ scan' = [scan EXCEPT
           !.r = Append(@, ScanResult(swar64_find_nl(scan.buf),
                                      swar64_find_nl_chr(scan.buf, scan.chr))),
           !.pc = "sse2"]
    /\ UNCHANGED parserVars

ScanSse2 ==
    /\ scan.pc = "sse2"
    /\ scan' = [scan EXCEPT
           !.r = Append(@, ScanResult(sse2_find_nl(scan.buf),
                                      sse2_find_nl_chr(scan.buf, scan.chr))),
           !.pc = "avx2"]
    /\ UNCHANGED parserVars

ScanAvx2 ==
    /\ scan.pc = "avx2"
    /\ scan' = [scan EXCEPT
           !.r = Append(@, ScanResult(avx2_find_nl(scan.buf),
                                      avx2_find_nl_chr(scan.buf, scan.chr))),
           !.pc = "done"]
    /\ UNCHANGED parserVars

ScanNext == ScanGeneric \/ ScanSwar32 \/ ScanSwar64 \/ ScanSse2 \/ ScanAvx2

ScanSpec == ScanInit /\ [][ScanNext]_vars

---------------------------------------------------------------------------
(* cmpeq on its own: a needle word and a haystack word, compared by the    *)
(* 32-bit cmpeq on their low four bytes and by the 64-bit cmpeq.           *)

\* What a haystack byte differs from the needle byte in: nothing, bit 0,
\* bits 0..6, bit 7, every bit.
CmpDeltas == {0, 1, 127, 128, 255}

\* The differences of the high four bytes.
CmpTails == {<<0, 0, 0, 0>>, <<255, 255, 255, 255>>, <<128, 0, 1, 127>>}

\* A splatted literal, as the scanners pass, and a word of mixed bytes.
CmpNeedles == {Splat(LF, 8), <<LF, CR, EQ, 219, 138, 0, 255, 127>>}

\* The differences of the eight bytes: every combination of CmpDeltas on the
\* low four with each tail, and every byte value at every position among
\* bytes that are all equal or all different.
CmpDiffs ==
    {d \o tl : d \in [1..4 -> CmpDeltas], tl \in CmpTails}
    \cup {[k \in 1..8 |-> IF k = p THEN x ELSE rest] :
             p \in 1..8, x \in Bytes, rest \in {0, 255}}

CmpInputs ==
    {[needle |-> n, haystack |-> WXor(n, d), pc |-> "words",
      mask32 |-> <<>>, mask64 |-> <<>>] :
        n \in CmpNeedles, d \in CmpDiffs}

CmpInit ==
    /\ scan \in CmpInputs
    /\ input = <<>>
    /\ line = ParserNew(input).line
    /\ comment_char = ParserNew(input).comment_char
    /\ auto_trim = ParserNew(input).auto_trim
    /\ section_ended = ParserNew(input).section_ended
    /\ state = ParserNew(input).state
    /\ started = FALSE
    /\ last = None
    /\ out = <<>>
    /\ used = <<>>

\* The low four bytes of a word: the u32 read at the same address.
Low32(w) == SubSeq(w, 1, 4)

Cmp32 ==
    /\ scan.pc = "words"
    /\ scan' = [scan EXCEPT
           !.mask32 = cmpeq32(Low32(scan.needle), Low32(scan.haystack)),
           !.pc = "cmp32"]
    /\ UNCHANGED parserVars

Cmp64 ==
    /\ scan.pc = "cmp32"
    /\ scan' = [scan EXCEPT
           !.mask64 = cmpeq64(scan.needle, scan.haystack),
           !.pc = "cmp64"]
    /\ UNCHANGED parserVars

CmpNext == Cmp32 \/ Cmp64

CmpSpec == CmpInit /\ [][CmpNext]_vars

---------------------------------------------------------------------------
(* Vocabulary of the properties, stated without the scanners: the first    *)
(* line of a byte string, its terminator, and what follows it.             *)

IsNl(b) == b = LF \/ b = CR

NlIdx(s) == {i \in 0..(Len(s) - 1) : IsNl(At(s, i))}

FirstNl(s) ==
    IF NlIdx(s) = {} THEN Len(s)
    ELSE CHOOSE i \in NlIdx(s) : \A j \in NlIdx(s) : i <= j

LineOf(s) == Slice(s, 0, FirstNl(s))

TermLen(s) ==
    LET n == FirstNl(s)
    IN  IF n = Len(s) THEN 0
        ELSE IF At(s, n) = CR /\ n + 1 < Len(s) /\ At(s, n + 1) = LF THEN 2
        ELSE 1

AfterLine(s) == SliceFrom(s, FirstNl(s) + TermLen(s))

EqIdx(s) == {i \in 0..(Len(s) - 1) : At(s, i) = EQ}

FirstEq(s) == CHOOSE i \in EqIdx(s) : \A j \in EqIdx(s) : i <= j

TrimIf(b, t) == IF b THEN trim(t) ELSE t

Count(tag) == Cardinality({k \in 1..Len(out) : out[k].tag = tag})

\* The sequence is complete: a pull has returned None.
Done == started /\ last = None

DefaultConfig == comment_char = SEMI /\ auto_trim = FALSE

\* A step of the parser that is a call of next().
IsPull == started'

---------------------------------------------------------------------------
(* C1 (as stated): in the complete element sequence the number of          *)
(* SectionEnd elements equals the number of Section elements plus one.     *)
C1_Original == Done => Count("SectionEnd") = Count("Section") + 1

(* C1 (amended): in the complete element sequence the number of SectionEnd *)
(* elements equals the number of Section elements plus the number of Error *)
(* elements plus one.                                                      *)
C1_SectionEndCount ==
    Done => Count("SectionEnd") = Count("Section") + Count("Error") + 1

C1_Witness == Done /\ Count("Section") >= 1 /\ Count("Error") >= 1

(* C2: every Section element and every Error element of the yielded        *)
(* sequence is immediately preceded by a SectionEnd element, also on the   *)
(* first line of the document and after an Error.                          *)
C2_HeaderAfterSectionEnd ==
    \A k \in 1..Len(out) :
        out[k].tag \in {"Section", "Error"} => k > 1 /\ out[k - 1] = SectionEnd

C2_Witness ==
    /\ Len(out) >= 4
    /\ out[2].tag = "Error"
    /\ out[1] = SectionEnd
    /\ out[4].tag \in {"Section", "Error"}
    /\ out[3] = SectionEnd

(* C3 (as stated): `[SECTION]\n;c\nK=V` yields Section, Comment, Property, *)
(* SectionEnd; `[SECTION\nnonsense` yields Error, Property, SectionEnd; a  *)
(* document whose first line starts with `[` yields that line's Section or *)
(* Error first, with no SectionEnd before it.                              *)
C3_Original ==
    /\ (Done /\ DefaultConfig /\ input = DocSection) =>
          out = << Section(<<83,69,67,84,73,79,78>>), Comment(<<99>>),
                   Property(<<75>>, Some(<<86>>)), SectionEnd >>
    /\ (Done /\ DefaultConfig /\ input = DocNonsense) =>
          out = << Error(<<91,83,69,67,84,73,79,78>>),
                   Property(<<110,111,110,115,101,110,115,101>>, None),
                   SectionEnd >>
    /\ (out # <<>> /\ input # <<>> /\ input[1] = LBRACK /\ comment_char # LBRACK) =>
          out[1].tag \in {"Section", "Error"}

(* C3 (amended): `[SECTION]\n;c\nK=V` yields SectionEnd, Section, Comment, *)
(* Property, SectionEnd; `[SECTION\nnonsense` yields SectionEnd, Error,    *)
(* Property, SectionEnd; a document whose first line starts with `[`       *)
(* (`[` not being the comment marker) yields SectionEnd first and that     *)
(* line's Section or Error second.                                         *)
C3_Examples ==
    /\ (Done /\ DefaultConfig /\ input = DocSection) =>
          out = << SectionEnd, Section(<<83,69,67,84,73,79,78>>), Comment(<<99>>),
                   Property(<<75>>, Some(<<86>>)), SectionEnd >>
    /\ (Done /\ DefaultConfig /\ input = DocNonsense) =>
          out = << SectionEnd, Error(<<91,83,69,67,84,73,79,78>>),
                   Property(<<110,111,110,115,101,110,115,101>>, None),
                   SectionEnd >>
    /\ (out # <<>> /\ input # <<>> /\ input[1] = LBRACK /\ comment_char # LBRACK) =>
          /\ out[1] = SectionEnd
          /\ Len(out) >= 2 => out[2].tag \in {"Section", "Error"}
          /\ Done => Len(out) >= 2

C3_Witness == Done /\ DefaultConfig /\ input = DocSection

(* C4: with the remaining input empty, a pull returns SectionEnd and only  *)
(* sets section_ended (when it was false), or returns None and changes no  *)
(* field of the parser (when it was true, the SectionEnd then being the    *)
(* last element yielded); the complete sequence ends with SectionEnd; the  *)
(* empty input yields exactly SectionEnd.                                  *)
C4_TerminalStep ==
    (IsPull /\ state = <<>>) =>
        /\ state' = state /\ line' = line
        /\ comment_char' = comment_char /\ auto_trim' = auto_trim
        /\ section_ended'
        /\ IF section_ended
           THEN /\ last' = None /\ out' = out
                /\ out # <<>> /\ out[Len(out)] = SectionEnd
           ELSE /\ last' = Some(SectionEnd) /\ out' = Append(out, SectionEnd)

C4_Terminal ==
    /\ [][C4_TerminalStep]_vars
    /\ [](Done => (state = <<>> /\ out # <<>> /\ out[Len(out)] = SectionEnd))
    /\ []((Done /\ input = <<>>) => out = <<SectionEnd>>)

C4_Witness == Done /\ input # <<>> /\ Len(out) >= 3

(* C5: every pull that returns an element either strictly shortens the     *)
(* remaining input or sets section_ended (false to true) without consuming;*)
(* a pull that consumes nothing after a pull that consumed nothing returns *)
(* None; so 2 * |remaining| + (1 if section_ended is false) decreases on   *)
(* every element and at most 2 * |input| + 1 elements are yielded.         *)
Measure(rem, ended) == 2 * Len(rem) + (IF ended THEN 0 ELSE 1)

LastPullConsumedNothing ==
    started /\ (last = None \/ used[Len(used)] = 0)

C5_Step ==
    IsPull =>
        /\ last' # None =>
              \/ Len(state') < Len(state)
              \/ state' = state /\ ~section_ended /\ section_ended'
        /\ last' # None => Measure(state', section_ended') < Measure(state, section_ended)
        /\ (LastPullConsumedNothing /\ state' = state) => last' = None
        /\ last' = None <=> Measure(state, section_ended) = 0

C5_Terminates ==
    /\ [][C5_Step]_vars
    /\ [](Len(out) <= 2 * Len(input) + 1)

C5_Witness == Done /\ input = <<91, 91, 91, 91>> /\ Len(out) = 3

---------------------------------------------------------------------------
\* A pull that parses a `[` line as a section header.
IsHeaderPull ==
    /\ IsPull /\ state # <<>> /\ At(state, 0) = LBRACK
    /\ comment_char # LBRACK /\ section_ended

\* The bytes strictly between the leading `[` and the last byte of line l.
HeaderName(l) == Slice(l, 1, Len(l) - 1)

(* C6 (as stated): a `[` line parsed as a header yields Section(name) iff  *)
(* the last byte of the line is `]`, name being the bytes strictly between *)
(* the leading `[` and that `]`; otherwise it yields Error with the whole  *)
(* raw line; the cursor advances past the line.                            *)
C6_OriginalStep ==
    IsHeaderPull =>
        LET l == LineOf(state)
        IN  /\ last' = IF l[Len(l)] = RBRACK THEN Some(Section(HeaderName(l)))
                       ELSE Some(Error(l))
            /\ state' = AfterLine(state)
            /\ Len(state') < Len(state)

C6_Original == [][C6_OriginalStep]_vars

(* C6 (amended): as stated, except that with auto-trim on the name is the  *)
(* bytes between the leading `[` and the final `]` with leading and        *)
(* trailing ASCII whitespace removed (the Error text is never trimmed).    *)
C6_HeaderStep ==
    IsHeaderPull =>
        LET l == LineOf(state)
        IN  /\ last' = IF l[Len(l)] = RBRACK
                       THEN Some(Section(TrimIf(auto_trim, HeaderName(l))))
                       ELSE Some(Error(l))
            /\ state' = AfterLine(state)
            /\ Len(state') < Len(state)

C6_Header == [][C6_HeaderStep]_vars

C6_Witness ==
    /\ input = DocSpaces /\ auto_trim
    /\ last = Some(Section(<<97>>))
    /\ state = AfterLine(input)

\* A pull on a line that is neither blank, nor a comment, nor a `[` line.
IsPropertyPull ==
    /\ IsPull /\ state # <<>>
    /\ ~IsNl(At(state, 0))
    /\ At(state, 0) # comment_char
    /\ At(state, 0) # LBRACK

(* C7 (as stated): such a line yields Property(key, Some(value)) with key  *)
(* the bytes before the first `=` and value the bytes after it up to the   *)
(* end of the line, or Property(whole line, None) if it holds no `=`.      *)
C7_OriginalStep ==
    IsPropertyPull =>
        LET l == LineOf(state)
        IN  last' = IF EqIdx(l) # {}
                    THEN Some(Property(Slice(l, 0, FirstEq(l)),
                                       Some(SliceFrom(l, FirstEq(l) + 1))))
                    ELSE Some(Property(l, None))

C7_Original == [][C7_OriginalStep]_vars

(* C7 (amended): as stated with auto-trim off; with auto-trim on the key   *)
(* and the value are those bytes with leading and trailing ASCII           *)
(* whitespace removed, and a line without `=` made only of ASCII           *)
(* whitespace yields Blank.                                                *)
C7_PropertyStep ==
    IsPropertyPull =>
        LET l == LineOf(state)
        IN  last' = IF EqIdx(l) # {}
                    THEN Some(Property(TrimIf(auto_trim, Slice(l, 0, FirstEq(l))),
                                       Some(TrimIf(auto_trim, SliceFrom(l, FirstEq(l) + 1)))))
                    ELSE IF TrimIf(auto_trim, l) = <<>> THEN Some(Blank)
                    ELSE Some(Property(TrimIf(auto_trim, l), None))

C7_Property == [][C7_PropertyStep]_vars

\* `a==` : the later `=` stays in the value.
C7_Witness ==
    /\ input = <<97, 61, 61>> /\ ~auto_trim
    /\ last = Some(Property(<<97>>, Some(<<61>>)))

\* The number of line terminators of a byte string made of \r and \n only:
\* every byte is one, except a \n that directly follows a \r.
OnlyNl(s) == \A k \in 1..Len(s) : IsNl(s[k])

NlCount(s) ==
    Len(s) - Cardinality({k \in 2..Len(s) : s[k - 1] = CR /\ s[k] = LF})

(* C8: \r\n, \n and \r are each one line terminator, in any mixture (\n\r  *)
(* and \r\r are two): an input made of k terminators yields k Blank        *)
(* elements followed by SectionEnd, and every pull that consumes input     *)
(* stops just past the first terminator of the remaining input.            *)
C8_Step == (IsPull /\ state' # state) => state' = AfterLine(state)

C8_Terminators ==
    /\ [][C8_Step]_vars
    /\ []((Done /\ OnlyNl(input)) =>
             out = [k \in 1..(NlCount(input) + 1) |->
                       IF k <= NlCount(input) THEN Blank ELSE SectionEnd])

\* `\r\n\n\r` : three terminators.
C8_Witness == Done /\ input = <<13, 10, 10, 13>> /\ Len(out) = 4

---------------------------------------------------------------------------
\* Indices of the bytes of s that are \n, \r or c, and the first of them.
NlChrIdx(s, c) == {i \in 0..(Len(s) - 1) : IsNl(At(s, i)) \/ At(s, i) = c}

FirstNlChr(s, c) ==
    IF NlChrIdx(s, c) = {} THEN Len(s)
    ELSE CHOOSE i \in NlChrIdx(s, c) : \A j \in NlChrIdx(s, c) : i <= j

(* C9: the scalar find_nl(s) is the smallest index of a \n or \r of s, or  *)
(* len(s) if there is none; the scalar find_nl_chr(s, c) is the smallest   *)
(* index of a \n, \r or c, or len(s); both are at most len(s).             *)
C9_ScalarScan ==
    scan.r # <<>> =>
        /\ scan.r[1].nl = FirstNl(scan.buf)
        /\ scan.r[1].nl_chr = FirstNlChr(scan.buf, scan.chr)
        /\ scan.r[1].nl <= Len(scan.buf)
        /\ scan.r[1].nl_chr <= Len(scan.buf)

\* The extra byte is found before a line terminator that is in the buffer.
C9_Witness ==
    /\ scan.r # <<>>
    /\ scan.r[1].nl_chr < scan.r[1].nl
    /\ scan.r[1].nl < Len(scan.buf)
    /\ scan.r[1].nl_chr > 0

(* C10: on every buffer and extra byte, each chunked backend (4- and       *)
(* 8-byte words, 16- and 32-byte vectors, each with the scalar scan of the *)
(* tail) returns the index the scalar implementation returns.              *)
C10_BackendsAgree ==
    \A k \in 1..Len(scan.r) :
        /\ scan.r[k].nl = scan.r[1].nl
        /\ scan.r[k].nl_chr = scan.r[1].nl_chr

\* Every backend has run on a buffer of two 32-byte chunks and a tail, whose
\* match is in the tail behind near-miss bytes.
C10_Witness ==
    /\ scan.pc = "done"
    /\ Len(scan.r) = 5
    /\ Len(scan.buf) = 66
    /\ scan.buf[1] = 242
    /\ scan.r[5].nl = 65

---------------------------------------------------------------------------
\* t without its leading and trailing ASCII whitespace (space, \t, \n,
\* form feed, \r), stated without the trim of the parser.
Ws == {32, 9, 10, 12, 13}

NonWs(t) == {k \in 1..Len(t) : t[k] \notin Ws}

Trimmed(t) ==
    IF NonWs(t) = {} THEN <<>>
    ELSE SubSeq(t, CHOOSE k \in NonWs(t) : \A j \in NonWs(t) : k <= j,
                   CHOOSE k \in NonWs(t) : \A j \in NonWs(t) : j <= k)

\* An element of the untrimmed sequence as auto-trim yields it.
TrimmedItem(e) ==
    IF e.tag \in {"Section", "Comment"} THEN [e EXCEPT !.text = Trimmed(@)]
    ELSE IF e.tag = "Property" /\ e.value = None
         THEN (IF Trimmed(e.text) = <<>> THEN Blank
               ELSE [e EXCEPT !.text = Trimmed(@)])
    ELSE IF e.tag = "Property"
         THEN [e EXCEPT !.text = Trimmed(@), !.value = Some(Trimmed(@[1]))]
    ELSE e

\* The complete run over the same input with the same comment marker and
\* the other setting of auto-trim.
OtherRun ==
    Collect([ParserNew(input) EXCEPT !.comment_char = comment_char,
                                     !.auto_trim = ~auto_trim])

(* C11: the element sequence with auto-trim on is the sequence with        *)
(* auto-trim off, element by element, with every Section name, Comment     *)
(* text, Property key and Property value trimmed of ASCII whitespace,      *)
(* Error text left raw and a valueless Property whose trimmed key is empty *)
(* turned into Blank; every pull consumes the same number of bytes in both.*)
C11_TrimRelation ==
    Done =>
        LET other == OtherRun
            on == IF auto_trim THEN out ELSE [k \in 1..Len(other) |-> other[k].item]
            off == IF auto_trim THEN [k \in 1..Len(other) |-> other[k].item] ELSE out
        IN  /\ Len(other) = Len(out)
            /\ \A k \in 1..Len(out) :
                  /\ on[k] = TrimmedItem(off[k])
                  /\ other[k].used = used[k]

C11_Witness ==
    /\ Done /\ auto_trim /\ input = DocSpaces
    /\ Count("Blank") = 1 /\ Count("Section") = 1 /\ Count("Comment") = 1

\* The bytes an element stands for, without the line terminator.
Render(e) ==
    IF e.tag = "Section" THEN <<LBRACK>> \o e.text \o <<RBRACK>>
    ELSE IF e.tag = "Comment" THEN <<comment_char>> \o e.text
    ELSE IF e.tag = "Property" /\ e.value # None THEN e.text \o <<EQ>> \o e.value[1]
    ELSE e.text

\* Number of bytes consumed before the pull that yielded out[k].
RECURSIVE OffsetOf(_)
OffsetOf(k) == IF k = 1 THEN 0 ELSE OffsetOf(k - 1) + used[k - 1]

\* The bytes the pull that yielded out[k] consumed.
Chunk(k) == SubSeq(input, OffsetOf(k) + 1, OffsetOf(k) + used[k])

Terminators == {<<>>, <<LF>>, <<CR>>, <<CR, LF>>}

(* C12: with auto-trim off the elements reproduce the input byte for byte: *)
(* the bytes each pull consumed are the written form of its element (Error *)
(* text; `[` name `]`; key `=` value; key; marker and comment text; nothing*)
(* for Blank and SectionEnd) followed by one line terminator (none for     *)
(* SectionEnd, and none at the end of input), and these pieces tile the    *)
(* input without gap or overlap.                                           *)
C12_Roundtrip ==
    (Done /\ ~auto_trim) =>
        /\ OffsetOf(Len(out)) + used[Len(out)] = Len(input)
        /\ \A k \in 1..Len(out) :
              \E term \in Terminators :
                  /\ Chunk(k) = Render(out[k]) \o term
                  /\ out[k] = SectionEnd => term = <<>>
                  /\ (out[k] # SectionEnd /\ term = <<>>) =>
                        OffsetOf(k) + used[k] = Len(input)

C12_Witness == Done /\ ~auto_trim /\ comment_char = SEMI /\ input = DocEmptyStrings

(* C13: no pull reaches an out-of-bounds index or an invalid slice range:  *)
(* in every reachable state every index and range the next pull evaluates  *)
(* is in bounds; at a header the scanner result is at least 1, and at      *)
(* least 2 when the line ends with `]`; every scanner result is at most    *)
(* the length of the slice scanned.                                        *)
C13_InBounds ==
    /\ NextInBounds(Self)
    /\ find_nl(state) <= Len(state)
    /\ find_nl_chr(state, EQ) <= Len(state)
    /\ (state # <<>> /\ At(state, 0) = LBRACK) =>
          /\ find_nl(state) >= 1
          /\ At(state, find_nl(state) - 1) = RBRACK => find_nl(state) >= 2

\* The header line `[` alone has been parsed: its scanner result was 1.
C13_Witness == last = Some(Error(<<LBRACK>>)) /\ state = <<>> /\ input = <<LBRACK>>

\* Every byte of t is ASCII whitespace.
AllWs(t) == \A k \in 1..Len(t) : t[k] \in Ws

(* C14: on a property line without `=` the pull returns Blank exactly when *)
(* auto-trim is on and the line is made only of ASCII whitespace, and      *)
(* otherwise a valueless Property with a non-empty key; with auto-trim off *)
(* a whitespace-only line yields Property(that whitespace, None); a line   *)
(* with `=` always yields a Property with a value, never Blank.            *)
C14_CollapseStep ==
    IsPropertyPull =>
        LET l == LineOf(state)
        IN  IF EqIdx(l) = {}
            THEN /\ (last' = Some(Blank)) <=> (auto_trim /\ AllWs(l))
                 /\ last' # Some(Blank) =>
                       /\ last'[1].tag = "Property"
                       /\ last'[1].value = None
                       /\ last'[1].text # <<>>
                 /\ (~auto_trim /\ AllWs(l)) => last' = Some(Property(l, None))
            ELSE /\ last'[1].tag = "Property"
                 /\ last'[1].value # None

C14_Collapse == [][C14_CollapseStep]_vars

\* With auto-trim on, ` ` alone became Blank and ` =` became a Property
\* whose key and value are both empty.
C14_Witness ==
    /\ Done /\ auto_trim /\ input = <<SP, LF, SP, EQ>>
    /\ out[1] = Blank
    /\ out[2] = Property(<<>>, Some(<<>>))

\* t holds no line terminator byte.
NoNl(t) == \A k \in 1..Len(t) : ~IsNl(t[k])

(* C15: in every yielded element no text (Error text, Section name,        *)
(* Comment text, Property key, Property value) contains \r or \n, and a    *)
(* Property key never contains `=`.                                        *)
C15_CleanTexts ==
    \A k \in 1..Len(out) :
        /\ NoNl(out[k].text)
        /\ out[k].value # None => NoNl(out[k].value[1])
        /\ out[k].tag = "Property" => EqIdx(out[k].text) = {}

\* `==\ra`: the value keeps the second `=` and stops at the \r, and the
\* last line is a key cut at the end of input.
C15_Witness ==
    /\ input = <<EQ, EQ, CR, 97>>
    /\ Done
    /\ out[1] = Property(<<>>, Some(<<EQ>>))
    /\ out[2] = Property(<<97>>, None)

\* t is a suffix of s.
IsSuffix(t, s) == Len(t) <= Len(s) /\ t = SliceFrom(s, Len(s) - Len(t))

(* C16: a pull that returns Blank, Comment, Section, Error or Property     *)
(* consumes exactly one logical line: the remainder afterwards starts just *)
(* past the first line terminator of the previous remainder (\r\n being    *)
(* one terminator), or is empty if there is none; in every step the        *)
(* remainder is a suffix of the previous remainder and of the input.       *)
C16_LineStep ==
    /\ IsSuffix(state', state)
    /\ IsSuffix(state', input')
    /\ (IsPull /\ last' # None /\ last' # Some(SectionEnd)) =>
          /\ state' = AfterLine(state)
          /\ Len(state') < Len(state)

C16_OneLine == [][C16_LineStep]_vars

\* `\r\n\na` after its second pull: the first took \r\n as one terminator,
\* the second the lone \n, and `a` remains.
C16_Witness ==
    /\ input = <<CR, LF, LF, 97>>
    /\ out = <<Blank, Blank>>
    /\ state = <<97>>

(* C17: a pull that returns SectionEnd leaves the remaining input, the     *)
(* line counter, the comment marker and the auto-trim flag unchanged and   *)
(* changes section_ended from false to true; a pull that returns None      *)
(* changes no field of the parser.                                         *)
C17_FrameStep ==
    /\ (IsPull /\ last' = Some(SectionEnd)) =>
          /\ state' = state
          /\ line' = line
          /\ comment_char' = comment_char
          /\ auto_trim' = auto_trim
          /\ ~section_ended
          /\ section_ended'
    /\ (IsPull /\ last' = None) =>
          /\ state' = state
          /\ line' = line
          /\ comment_char' = comment_char
          /\ auto_trim' = auto_trim
          /\ section_ended' = section_ended

C17_Frame == [][C17_FrameStep]_vars

\* `\n[]` after its second pull: SectionEnd in front of the header, with
\* one line counted and the header still unread.
C17_Witness ==
    /\ input = <<LF, LBRACK, RBRACK>>
    /\ last = Some(SectionEnd)
    /\ state = <<LBRACK, RBRACK>>
    /\ line = 1
    /\ section_ended

(* C18: no two consecutive yielded elements are both SectionEnd: after a   *)
(* SectionEnd in front of a `[` line the next pull consumes that line and  *)
(* yields Section or Error; after the SectionEnd at end of input the next  *)
(* pull yields None.                                                       *)
C18_EndStep ==
    /\ \A k \in 1..(Len(out') - 1) :
          ~(out'[k] = SectionEnd /\ out'[k + 1] = SectionEnd)
    /\ (IsPull /\ started /\ last = Some(SectionEnd)) =>
          IF state = <<>>
          THEN last' = None
          ELSE /\ last' # None
               /\ last'[1].tag \in {"Section", "Error"}
               /\ At(state, 0) = LBRACK
               /\ state' = AfterLine(state)
               /\ state' # state

C18_NoDoubleEnd == [][C18_EndStep]_vars

\* `[\n[]`: an Error header directly followed by a Section header that ends
\* the input; each SectionEnd stands alone.
C18_Witness ==
    /\ input = <<LBRACK, LF, LBRACK, RBRACK>>
    /\ Done
    /\ out = <<SectionEnd, Error(<<LBRACK>>), SectionEnd, Section(<<>>), SectionEnd>>

\* The number of line terminators of s: every \r and every \n, except a \n
\* that directly follows a \r.
TermCount(s) ==
    Cardinality(NlIdx(s))
      - Cardinality({i \in 1..(Len(s) - 1) : At(s, i - 1) = CR /\ At(s, i) = LF})

\* The bytes a step takes off the front of the remainder.
Consumed == Slice(state, 0, Len(state) - Len(state'))

(* C19: line() is 0 after construction and never decreases; a pull that    *)
(* consumes a line terminator (\r\n being one) adds exactly 1 and every    *)
(* other step adds 0 (SectionEnd, None, a last line without terminator);   *)
(* once the parser is exhausted line() is the number of line terminators   *)
(* of the input.                                                           *)
C19_LineStep ==
    /\ line' >= line
    /\ line' = line + (IF IsPull /\ NlIdx(Consumed) # {} THEN 1 ELSE 0)
    /\ (IsPull /\ last' \in {None, Some(SectionEnd)}) => line' = line

C19_LineCounter ==
    /\ line = 0
    /\ [][C19_LineStep]_vars
    /\ [](~started => line = 0)
    /\ [](Done => line = TermCount(input))

\* `a\r\na`: two lines and three elements, one terminator.
C19_Witness ==
    /\ input = <<97, CR, LF, 97>>
    /\ Done
    /\ Len(out) = 3
    /\ line = 1

\* What a pull on a non-empty remainder returns, by the first byte alone;
\* text(l) is the text a Comment carries for the line l.
KindStep(text(_)) ==
    (IsPull /\ state # <<>>) =>
        LET l == LineOf(state)
            b == At(state, 0)
        IN  IF IsNl(b) THEN last' = Some(Blank)
            ELSE IF b = comment_char THEN last' = Some(Comment(text(l)))
            ELSE IF b = LBRACK
                 THEN last' # None /\ last'[1].tag \in {"SectionEnd", "Section", "Error"}
            ELSE /\ last' # None
                 /\ last'[1].tag \in {"Property", "Blank"}
                 /\ ~AllWs(l) => last'[1].tag = "Property"

\* With `[` as the comment marker no header is parsed: no Section and no
\* Error is yielded, and SectionEnd only at the end of the input.
NoHeaderStep ==
    comment_char = LBRACK =>
        /\ \A k \in 1..Len(out') : out'[k].tag \notin {"Section", "Error"}
        /\ (IsPull /\ last' = Some(SectionEnd)) => state = <<>>

RawCommentText(l) == SliceFrom(l, 1)

TrimmedCommentText(l) == TrimIf(auto_trim, SliceFrom(l, 1))

(* C20 (as stated): the first byte of the line alone decides, in this      *)
(* order: line terminator -> Blank; comment marker -> Comment whose text   *)
(* is everything after the marker up to the terminator; `[` -> header      *)
(* handling; anything else -> property handling, a Property whenever the   *)
(* line holds a byte that is not whitespace; and with `[` as the marker    *)
(* no Section, Error or header SectionEnd is yielded.                      *)
C20_OriginalStep == KindStep(RawCommentText) /\ NoHeaderStep

C20_Original == [][C20_OriginalStep]_vars

(* C20 (amended): as stated, except that with auto-trim on the Comment     *)
(* text is everything after the marker up to the terminator with leading   *)
(* and trailing ASCII whitespace removed.                                  *)
C20_KindStep == KindStep(TrimmedCommentText) /\ NoHeaderStep

C20_Kind == [][C20_KindStep]_vars

\* `[ a ` with `[` as the marker and auto-trim on: a trimmed Comment, then
\* only the SectionEnd at the end of the input.
C20_Witness ==
    /\ input = <<LBRACK, SP, 97, SP>>
    /\ comment_char = LBRACK /\ auto_trim
    /\ Done
    /\ out = <<Comment(<<97>>), SectionEnd>>

\* The cursor: the number of bytes of the input already consumed.
Cursor == Len(input) - Len(state)

(* C21: the input being valid UTF-8, the cursor always stands at an end of *)
(* the input or just behind a line terminator, the remainder and every     *)
(* returned text are valid UTF-8 (no slice starts or ends inside a         *)
(* multi-byte character), and the comment marker is below 0x80, so it is   *)
(* neither a lead nor a continuation byte.                                 *)
C21_Utf8 ==
    from_utf8_ok(input) =>
        /\ Cursor = 0 \/ Cursor = Len(input) \/ IsNl(At(input, Cursor - 1))
        /\ from_utf8_ok(state)
        /\ comment_char < 128
        /\ Utf8Width(comment_char) = 1 /\ ~IsContinuation(comment_char)
        /\ \A k \in 1..Len(out) :
              /\ from_utf8_ok(out[k].text)
              /\ out[k].value # None => from_utf8_ok(out[k].value[1])

\* The multi-byte document read with 0xDB given as the marker: the marker is
\* `[`, the first line is a Property and the `[` line a Comment.
C21_Witness ==
    /\ input = DocUtf8
    /\ comment_char = LBRACK
    /\ Done
    /\ out[1] = Property(<<219, 138>>, Some(<<226, 130, 172>>))
    /\ out[2] = Comment(<<219, 138, 93>>)

\* section_ended is set and the remainder begins with `[`.
AtPendingHeader == section_ended /\ state # <<>> /\ At(state, 0) = LBRACK

(* C22: in every reachable state section_ended implies that the remainder  *)
(* is empty or begins with `[`; and a pull from a state with section_ended *)
(* set and a remainder beginning with `[` consumes that line and clears    *)
(* section_ended, whether it yields Section or Error.                      *)
C22_PendingStep ==
    (IsPull /\ AtPendingHeader) =>
        /\ last' # None
        /\ last'[1].tag \in {"Section", "Error"}
        /\ state' = AfterLine(state)
        /\ state' # state
        /\ ~section_ended'

C22_Pending ==
    /\ [](section_ended => (state = <<>> \/ At(state, 0) = LBRACK))
    /\ [][C22_PendingStep]_vars

\* `[\n[]` after the pull of its second header: an Error and a Section have
\* each cleared the flag.
C22_Witness ==
    /\ input = <<LBRACK, LF, LBRACK, RBRACK>>
    /\ Len(out) = 4
    /\ out[2] = Error(<<LBRACK>>)
    /\ last = Some(Section(<<>>))
    /\ ~section_ended
    /\ state = <<>>

\* The word that has 0x80 in byte k where n and h agree and 0 elsewhere.
EqMask(n, h) == [k \in DOMAIN n |-> IF n[k] = h[k] THEN 128 ELSE 0]

\* The bytes of n and h that agree, counted from 0 in little-endian order.
EqLanes(n, h) == {k - 1 : k \in {j \in DOMAIN n : n[j] = h[j]}}

\* The addition inside cmpeq stays within each byte: the sum of the words is
\* the word of the sums of the bytes.
NoCarry(n, h) ==
    LET low == WAnd(WNot(WXor(n, h)), Splat(127, Len(n)))
    IN  /\ \A k \in DOMAIN low : low[k] + 1 < 256
        /\ WAdd(low, Splat(1, Len(n))) = [k \in DOMAIN low |-> low[k] + 1]

\* mask is what the claim says of cmpeq(n, h).
CmpeqRight(n, h, mask) ==
    /\ mask = EqMask(n, h)
    /\ NoCarry(n, h)
    /\ EqLanes(n, h) # {} =>
          /\ ~WIsZero(mask)
          /\ trailing_zeros(mask, 1) \div 8 \in EqLanes(n, h)
          /\ \A j \in EqLanes(n, h) : trailing_zeros(mask, 1) \div 8 <= j
    /\ EqLanes(n, h) = {} => WIsZero(mask)

(* C23: cmpeq(needle, haystack), 32- and 64-bit, returns the word whose    *)
(* byte k is 0x80 if byte k of needle equals byte k of haystack and 0      *)
(* otherwise; the addition of 0x01 to the low seven bits of each byte does *)
(* not carry into the next byte; and trailing_zeros of a non-zero mask     *)
(* shifted right by 3 is the index of the first equal byte.                *)
C23_Cmpeq ==
    /\ scan.pc \in {"cmp32", "cmp64"} =>
          CmpeqRight(Low32(scan.needle), Low32(scan.haystack), scan.mask32)
    /\ scan.pc = "cmp64" =>
          CmpeqRight(scan.needle, scan.haystack, scan.mask64)

\* Against the mixed needle: bytes 0 and 1 differ in bit 7 only and in bits
\* 0..6 only, byte 2 is the first equal one, and byte 4 differs in bit 7.
C23_Witness ==
    /\ scan.pc = "cmp64"
    /\ scan.needle = <<LF, CR, EQ, 219, 138, 0, 255, 127>>
    /\ scan.haystack = <<138, 114, EQ, 218, 10, 0, 254, 0>>
    /\ scan.mask32 = <<0, 0, 128, 0>>
    /\ scan.mask64 = <<0, 0, 128, 0, 0, 128, 0, 0>>

===========================================================================
